---------------------------- MODULE Spec2Model ----------------------------
(***************************************************************************)
(* A state-machine model of the CS-330 desk-lamp renderer:                 *)
(*   SceneManager.cpp  texture registry, material library, shader          *)
(*                     parameter protocol and the fixed scene traversal;   *)
(*   ViewManager.cpp   camera, input callbacks and per-frame view set-up.  *)
(*                                                                         *)
(* Numbers that the code keeps as floats are kept in fixed point: angles   *)
(* in tenths of a degree, the camera speed in tenths, material values in   *)
(* hundredths.  Every value the model uses is exact at that scale.         *)
(***************************************************************************)
EXTENDS Integers, Sequences, FiniteSets, TLC

VARIABLES
    \* ---- SceneManager ---------------------------------------------------
    m_pShaderManager,   \* "NULL" or "valid": the constructor's argument
    m_textureIDs,       \* the TEXTURE_INFO array, indexed 0..TextureCapacity-1
    m_loadedTextures,   \* number of registered textures
    overrun,            \* what reads back from the memory past m_textureIDs
    m_objectMaterials,  \* the material library (a sequence of presets)
    \* ---- OpenGL state the SceneManager drives -----------------------------
    glTextures,         \* texture names currently allocated
    activeUnit,         \* glActiveTexture selection
    unitTex,            \* texture bound to GL_TEXTURE_2D of each unit
    uniforms,           \* the shader program's uniform values
    \* ---- RenderScene position ---------------------------------------------
    prepared,           \* PrepareScene has run
    pc,                 \* 0: not rendering; i: next instruction of the frame
    frame,              \* frames started (capped)
    drawLog,            \* meshes drawn so far in the current frame
    sinceDraw,          \* uniforms written since the previous draw / frame start
    \* ---- program-wide -----------------------------------------------------
    fault,              \* "none", or "segv" after a fatal undefined behaviour
    \* ---- history (not program state) ------------------------------------
    lastOp,             \* the operation that produced this state
    registered,         \* tags of the CreateGLTexture calls that returned true
    failedCalls,        \* CreateGLTexture calls that returned false
    dupCalls,           \* CreateGLTexture calls that repeated a registered tag
    maintCalls,         \* BindGLTextures and DestroyGLTextures calls
    fmResult,           \* the last FindMaterial call: arguments and results
    \* ---- ViewManager ------------------------------------------------------
    m_pWindow,          \* "NULL" or "window"
    g_pCamera,          \* the Camera object
    gLastX, gLastY, gFirstMouse,
    gCameraSpeed,
    bOrthographicProjection,
    pPressed, oPressed, viewKeyPressed,
    windowShouldClose,
    viewLog             \* history of the last ViewManager operation

sceneVars  == <<m_pShaderManager, m_textureIDs, m_loadedTextures, overrun,
                m_objectMaterials>>
glVars     == <<glTextures, activeUnit, unitTex, uniforms>>
renderVars == <<prepared, pc, frame, drawLog, sinceDraw>>
histVars   == <<lastOp, registered, failedCalls, dupCalls, maintCalls,
                fmResult>>
viewVars   == <<m_pWindow, g_pCamera, gLastX, gLastY, gFirstMouse,
                gCameraSpeed, bOrthographicProjection, pPressed, oPressed,
                viewKeyPressed, windowShouldClose, viewLog>>
vars       == <<sceneVars, glVars, renderVars, histVars, fault, viewVars>>

-----------------------------------------------------------------------------
(* Bounds of the model (not program constants).                            *)

\* CreateGLTexture calls explored past the end of m_textureIDs
MaxOverrun == 1
\* texture calls per behaviour other than a CreateGLTexture call that
\* registers a new tag: failed calls, calls that repeat a registered tag,
\* BindGLTextures and DestroyGLTextures calls
MaxOtherCalls == 2
\* frames rendered per behaviour
MaxFrames == 2

(* Program constants.                                                      *)

\* "There are up to 16 slots": the size of m_textureIDs
TextureCapacity == 16

-----------------------------------------------------------------------------
(* Texture tags.  The first five are the tags LoadSceneTextures registers, *)
(* in its order; the rest are further distinct tags a caller may pass.     *)
TagPool ==
    <<"stainless", "gold", "wood", "plastic", "darkplastic",
      "t06", "t07", "t08", "t09", "t10", "t11", "t12", "t13", "t14",
      "t15", "t16", "t17", "t18", "t19", "t20">>

NoTag == ""

\* a default-constructed TEXTURE_INFO / a slot that holds no registration
EmptySlot == [ID |-> 0, tag |-> NoTag]

TextureUnits == 0 .. (TextureCapacity + MaxOverrun - 1)

\* The registry and the OpenGL texture state as one value, so that a handler
\* that calls another (LoadSceneTextures) composes the same operators.
TexNow ==
    [m_textureIDs |-> m_textureIDs, m_loadedTextures |-> m_loadedTextures,
     overrun |-> overrun, glTextures |-> glTextures,
     activeUnit |-> activeUnit, unitTex |-> unitTex, fault |-> fault]

\* m_textureIDs[i] as the code reads it: inside the array, or past its end
Slot(T, i) ==
    IF i < TextureCapacity THEN T.m_textureIDs[i]
    ELSE IF i - TextureCapacity + 1 <= Len(T.overrun)
         THEN T.overrun[i - TextureCapacity + 1]
         ELSE EmptySlot

\* the while loop shared by FindTextureID and FindTextureSlot: the first
\* index in [index, m_loadedTextures) whose tag compares equal, or -1
RECURSIVE ScanTextures(_, _, _)
ScanTextures(T, tag, index) ==
    IF index < T.m_loadedTextures
    THEN IF Slot(T, index).tag = tag
         THEN index
         ELSE ScanTextures(T, tag, index + 1)
    ELSE -1

FindTextureSlotInMutant(T, tag) ==
    LET index == ScanTextures(T, tag, 0)
    IN  IF index = -1 THEN 0 ELSE index
FindTextureSlotIn(T, tag) == ScanTextures(T, tag, 0)

FindTextureSlot(tag) == FindTextureSlotIn(TexNow, tag)

FindTextureID(tag) ==
    LET index == ScanTextures(TexNow, tag, 0)
    IN  IF index = -1 THEN -1 ELSE Slot(TexNow, index).ID

-----------------------------------------------------------------------------
(* OpenGL calls.                                                           *)

\* glGenTextures(1, &id): an unused name (the lowest one)
glGenTextures(names) ==
    CHOOSE n \in 1 .. (Cardinality(names) + 1) :
        /\ n \notin names
        /\ \A m \in 1 .. (n - 1) : m \in names

\* glBindTexture(GL_TEXTURE_2D, id) on the active unit
glBindTexture(T, id) == [T EXCEPT !.unitTex[T.activeUnit] = id]

\* glDeleteTextures(1, &id): the name is freed and every unit that had it
\* bound reverts to 0; 0 and names that are not allocated are ignored
glDeleteTextures(T, id) ==
    IF id \in T.glTextures
    THEN [T EXCEPT !.glTextures = @ \ {id},
                   !.unitTex = [u \in DOMAIN @ |-> IF @[u] = id THEN 0 ELSE @[u]]]
    ELSE T

-----------------------------------------------------------------------------
(* SceneManager::CreateGLTexture                                           *)

\* stbi_load's results: colorChannels, 0 standing for a null image
DecodeResults == 0 .. 4

\* what the store past the end of m_textureIDs can do
OverrunOutcomes == {"stored", "garbage", "segv"}

\* if (image)
ImageLoaded(colorChannels) == colorChannels # 0

\* the RGB / RGBA branches; any other channel count returns false
ChannelsSupported(colorChannels) == colorChannels \in {3, 4}

\* the registration is reached only past the channel check
RegistersMutant(colorChannels) == ImageLoaded(colorChannels)
Registers(colorChannels) ==
    ImageLoaded(colorChannels) /\ ChannelsSupported(colorChannels)

\* the exit a decode result takes: 0 the load failure (the else of
\* if(image)), 1 the unsupported channel count, 2 the registration
ExitTaken(colorChannels) ==
    IF ~ImageLoaded(colorChannels) THEN 0
    ELSE IF ~ChannelsSupported(colorChannels) THEN 1 ELSE 2

\* the function's return value
CreateReturns(colorChannels) ==
    ImageLoaded(colorChannels) /\ ChannelsSupported(colorChannels)

\* m_textureIDs[m_loadedTextures] = {textureID, tag}; m_loadedTextures++
RegisterTexture(T, textureID, tag, oob) ==
    IF T.m_loadedTextures < TextureCapacity
    THEN [T EXCEPT !.m_textureIDs[T.m_loadedTextures] =
                        [ID |-> textureID, tag |-> tag],
                   !.m_loadedTextures = @ + 1]
    ELSE \* a store past the end of the array: undefined behaviour
         CASE oob = "stored"  ->
                [T EXCEPT !.overrun = Append(@, [ID |-> textureID, tag |-> tag]),
                          !.m_loadedTextures = @ + 1]
           [] oob = "garbage" ->
                [T EXCEPT !.overrun = Append(@, EmptySlot),
                          !.m_loadedTextures = @ + 1]
           [] OTHER -> [T EXCEPT !.fault = "segv"]

CreateGLTextureOn(T, tag, colorChannels, oob) ==
    IF ~ImageLoaded(colorChannels)
    THEN T
    ELSE LET textureID == glGenTextures(T.glTextures)
             gen   == [T EXCEPT !.glTextures = @ \cup {textureID}]
             bound == glBindTexture(gen, textureID)
         IN  IF Registers(colorChannels)
             THEN RegisterTexture(glBindTexture(bound, 0), textureID, tag, oob)
             ELSE bound

\* the index CreateGLTexture stores to, -1 when it stores nothing
StoreIndex(T, colorChannels) ==
    IF Registers(colorChannels) THEN T.m_loadedTextures ELSE -1

-----------------------------------------------------------------------------
(* SceneManager::BindGLTextures and DestroyGLTextures                      *)

RECURSIVE BindLoopMutant(_, _)
BindLoopMutant(T, i) ==
    IF i < T.m_loadedTextures
    THEN BindLoopMutant(glBindTexture(T, Slot(T, i).ID), i + 1)
    ELSE T

RECURSIVE BindLoop(_, _)
BindLoop(T, i) ==
    IF i < T.m_loadedTextures
    THEN BindLoop(glBindTexture([T EXCEPT !.activeUnit = i], Slot(T, i).ID), i + 1)
    ELSE T

BindGLTexturesOn(T) == BindLoop(T, 0)

RECURSIVE DestroyLoop(_, _)
DestroyLoop(T, i) ==
    IF i < T.m_loadedTextures
    THEN DestroyLoop(glDeleteTextures(T, Slot(T, i).ID), i + 1)
    ELSE T

DestroyGLTexturesOn(T) == DestroyLoop(T, 0)

-----------------------------------------------------------------------------
(* The shader manager: typed uniform setters keyed by name.  A uniform's   *)
(* value is a tuple of integers, <<>> while the program never set it.      *)

MaterialUniforms ==
    {"material.ambientColor", "material.ambientStrength",
     "material.diffuseColor", "material.specularColor", "material.shininess"}

LightUniforms ==
    {"lightSources[0].ambientColor", "lightSources[0].diffuseColor",
     "lightSources[0].specularColor", "lightSources[0].specularIntensity",
     "lightSources[1].ambientColor", "lightSources[1].diffuseColor",
     "lightSources[1].specularColor", "lightSources[1].specularIntensity",
     "lightSources[2].ambientColor", "lightSources[2].diffuseColor",
     "lightSources[2].specularColor", "lightSources[2].specularIntensity"}

UniformNames ==
    {"model", "view", "projection", "viewPosition", "objectColor",
     "objectTexture", "bUseTexture", "bUseLighting", "UVscale"}
    \cup MaterialUniforms \cup LightUniforms

\* The shader as a handler sees it: the uniform values, the names written by
\* the handler so far, and whether the handler has faulted.
ShNow == [uniforms |-> uniforms, wrote |-> {}, fault |-> fault]

\* m_pShaderManager->setXxxValue(name, value); a call through a null
\* m_pShaderManager is fatal
SetUniform(S, name, value) ==
    IF S.fault # "none" THEN S
    ELSE IF m_pShaderManager = "NULL" THEN [S EXCEPT !.fault = "segv"]
    ELSE [S EXCEPT !.uniforms[name] = value, !.wrote = @ \cup {name}]

Vec3(v) == <<v, v, v>>

-----------------------------------------------------------------------------
(* The material library.  Values are in hundredths.                        *)

Material(tag, aStrength, aColor, dColor, sColor, shininess) ==
    [ambientStrength |-> aStrength, ambientColor |-> aColor,
     diffuseColor |-> dColor, specularColor |-> sColor,
     shininess |-> shininess, tag |-> tag]

\* SetupMaterials: clear(), then the five presets pushed in this order
MaterialPresets ==
    << Material("steel",       20, Vec3(20), Vec3(70), Vec3(100), 6400),
       Material("plastic",     10, Vec3(10), Vec3(50), Vec3(30),   800),
       Material("darkplastic", 10, Vec3(5),  Vec3(20), Vec3(20),   400),
       Material("gold",        25, Vec3(30), Vec3(60), Vec3(100), 6400),
       Material("burntsand",   10, Vec3(20), Vec3(45), Vec3(20),   800) >>

\* An OBJECT_MATERIAL that was declared and never assigned: the tag is an
\* empty string, the numbers are whatever the memory held.
UninitMaterials ==
    { Material(NoTag, 0, Vec3(0), Vec3(0), Vec3(0), 0),
      Material(NoTag, -7731, <<12, -400, 9>>, Vec3(31337), <<0, 1, 2>>, -1) }

\* the while loop of FindMaterial: the first index whose tag compares
\* equal, 0 when the scan runs off the end (indexes from 1)
RECURSIVE ScanMaterials(_, _, _)
ScanMaterials(lib, tag, index) ==
    IF index <= Len(lib)
    THEN IF lib[index].tag = tag THEN index ELSE ScanMaterials(lib, tag, index + 1)
    ELSE 0

\* what FindMaterial returns on a lookup miss in a non-empty library
MissReturns == TRUE

\* the fields FindMaterial copies on a hit (the tag is not copied)
CopyMaterialMutant(material, found) ==
    [material EXCEPT !.ambientColor = found.ambientColor,
                     !.ambientStrength = found.ambientStrength,
                     !.diffuseColor = found.diffuseColor,
                     !.specularColor = found.specularColor]
CopyMaterial(material, found) ==
    [material EXCEPT !.ambientColor = found.ambientColor,
                     !.ambientStrength = found.ambientStrength,
                     !.diffuseColor = found.diffuseColor,
                     !.specularColor = found.specularColor,
                     !.shininess = found.shininess]

\* bool FindMaterial(tag, material&): the return value and the out-parameter
FindMaterial(lib, tag, material) ==
    IF Len(lib) = 0
    THEN [ret |-> FALSE, material |-> material]
    ELSE LET index == ScanMaterials(lib, tag, 1)
         IN  IF index # 0
             THEN [ret |-> TRUE, material |-> CopyMaterial(material, lib[index])]
             ELSE [ret |-> MissReturns, material |-> material]

\* SetShaderMaterial(materialTag), `material` being the local's initial content
SetShaderMaterialOn(S, materialTag, material) ==
    IF Len(m_objectMaterials) > 0
    THEN LET r == FindMaterial(m_objectMaterials, materialTag, material)
         IN  IF r.ret
             THEN LET s1 == SetUniform(S,  "material.ambientColor", r.material.ambientColor)
                      s2 == SetUniform(s1, "material.ambientStrength", <<r.material.ambientStrength>>)
                      s3 == SetUniform(s2, "material.diffuseColor", r.material.diffuseColor)
                      s4 == SetUniform(s3, "material.specularColor", r.material.specularColor)
                  IN  SetUniform(s4, "material.shininess", <<r.material.shininess>>)
             ELSE S
    ELSE S

-----------------------------------------------------------------------------
(* The other uniform-setting methods of SceneManager.                      *)

\* SetTransformations: the composed matrix is pushed as "model" when the
\* shader manager is not null.  The matrix is identified by its placement.
SetTransformationsOn(S, placement) ==
    IF m_pShaderManager # "NULL" THEN SetUniform(S, "model", <<placement>>) ELSE S

\* SetShaderColor
SetShaderColorOn(S, rgba) ==
    IF m_pShaderManager # "NULL"
    THEN SetUniform(SetUniform(S, "bUseTexture", <<0>>), "objectColor", rgba)
    ELSE S

\* SetShaderTexture
SetShaderTextureOn(S, T, textureTag) ==
    IF m_pShaderManager # "NULL"
    THEN SetUniform(SetUniform(S, "bUseTexture", <<1>>),
                    "objectTexture", <<FindTextureSlotIn(T, textureTag)>>)
    ELSE S

\* SetTextureUVScale
SetTextureUVScaleOn(S, u, v) ==
    IF m_pShaderManager # "NULL" THEN SetUniform(S, "UVscale", <<u, v>>) ELSE S

\* SetupLights: twelve light uniforms and bUseLighting, with no null check
SetupLightsOn(S) ==
    LET a1 == SetUniform(S,  "lightSources[0].ambientColor", Vec3(20))
        a2 == SetUniform(a1, "lightSources[0].diffuseColor", Vec3(70))
        a3 == SetUniform(a2, "lightSources[0].specularColor", Vec3(90))
        a4 == SetUniform(a3, "lightSources[0].specularIntensity", <<50>>)
        b1 == SetUniform(a4, "lightSources[1].ambientColor", Vec3(5))
        b2 == SetUniform(b1, "lightSources[1].diffuseColor", Vec3(25))
        b3 == SetUniform(b2, "lightSources[1].specularColor", Vec3(30))
        b4 == SetUniform(b3, "lightSources[1].specularIntensity", <<20>>)
        c1 == SetUniform(b4, "lightSources[2].ambientColor", <<10, 5, 5>>)
        c2 == SetUniform(c1, "lightSources[2].diffuseColor", <<90, 30, 30>>)
        c3 == SetUniform(c2, "lightSources[2].specularColor", <<100, 50, 50>>)
        c4 == SetUniform(c3, "lightSources[2].specularIntensity", <<60>>)
    IN  SetUniform(c4, "bUseLighting", <<1>>)

-----------------------------------------------------------------------------
(* RenderScene as the sequence of calls it makes.  UV scales are in        *)
(* hundredths; a placement is the ordinal of the SetTransformations call.  *)

Xf(placement) == [op |-> "SetTransformations", tag |-> NoTag, u |-> placement, v |-> 0]
Mat(tag)      == [op |-> "SetShaderMaterial",  tag |-> tag,   u |-> 0, v |-> 0]
Tex(tag)      == [op |-> "SetShaderTexture",   tag |-> tag,   u |-> 0, v |-> 0]
UV(u, v)      == [op |-> "SetTextureUVScale",  tag |-> NoTag, u |-> u, v |-> v]
Draw(mesh)    == [op |-> "Draw",               tag |-> mesh,  u |-> 0, v |-> 0]

\* for (int i = 0; i < handleSegments; ++i): one mug-handle segment
handleSegments == 7

HandleSegmentMutant(i) ==
    << Tex("plastic"), UV(100, 100), Mat("plastic"), Draw("cylinder") >>
HandleSegment(i) ==
    << Xf(16 + i), Tex("plastic"), UV(100, 100), Mat("plastic"), Draw("cylinder") >>

RECURSIVE HandleLoopMutant(_)
HandleLoopMutant(i) ==
    IF i <= handleSegments
    THEN HandleSegment(i) \o HandleLoopMutant(i + 1) ELSE << >>

RECURSIVE HandleLoop(_)
HandleLoop(i) ==
    IF i < handleSegments THEN HandleSegment(i) \o HandleLoop(i + 1) ELSE << >>

SceneProgram ==
    \* world plane
    << Xf(1), Mat("burntsand"), Draw("plane") >>
    \* desk
    \o << Xf(2), Tex("wood"), UV(250, 150), Draw("box") >>
    \* lamp base
    \o << Xf(3), Tex("stainless"), UV(300, 300), Draw("cylinder") >>
    \* lamp base post
    \o << Xf(4), Tex("darkplastic"), UV(100, 100), Draw("cylinder") >>
    \* lamp lower arm
    \o << Xf(5), Mat("darkplastic"), Draw("taperedcylinder") >>
    \* lamp elbow joint
    \o << Xf(6), Tex("plastic"), UV(100, 100), Draw("sphere") >>
    \* lamp upper arm
    \o << Xf(7), Tex("darkplastic"), UV(100, 100), Mat("darkplastic"),
          Draw("taperedcylinder") >>
    \* lamp head joint
    \o << Xf(8), Tex("plastic"), UV(100, 100), Draw("sphere") >>
    \* lamp neck
    \o << Xf(9), Mat("darkplastic"), Draw("cylinder") >>
    \* lamp shade
    \o << Xf(10), Tex("stainless"), UV(100, 100), Draw("cone") >>
    \* lamp bulb
    \o << Xf(11), Tex("gold"), UV(100, 100), Mat("gold"), Draw("sphere") >>
    \* laptop base
    \o << Xf(12), Tex("darkplastic"), UV(200, 150), Mat("darkplastic"), Draw("box") >>
    \* laptop lid
    \o << Xf(13), Tex("stainless"), UV(200, 150), Mat("steel"), Draw("box") >>
    \* cup body
    \o << Xf(14), Tex("plastic"), UV(100, 100), Mat("plastic"), Draw("cylinder") >>
    \* cup rim
    \o << Xf(15), Tex("stainless"), UV(200, 150), Mat("steel"),
          Draw("taperedcylinder") >>
    \* cup handle
    \o HandleLoop(0)
    \* book 1
    \o << Xf(23), Tex("darkplastic"), UV(50, 100), Mat("darkplastic"), Draw("box") >>
    \* book 2
    \o << Xf(24), Tex("plastic"), UV(50, 100), Mat("plastic"), Draw("box") >>
    \* book 3
    \o << Xf(25), Tex("gold"), UV(70, 100), Mat("gold"), Draw("box") >>

-----------------------------------------------------------------------------
(* Histories.                                                              *)

Op(op, tag, arg, ret, index, wrote) ==
    [op |-> op, tag |-> tag, arg |-> arg, ret |-> ret, index |-> index,
     wrote |-> wrote]

NoOp == Op("none", NoTag, 0, FALSE, -1, {})

NoFindMaterial ==
    [called |-> FALSE, tag |-> NoTag, lib |-> << >>, ret |-> FALSE,
     in  |-> Material(NoTag, 0, Vec3(0), Vec3(0), Vec3(0), 0),
     out |-> Material(NoTag, 0, Vec3(0), Vec3(0), Vec3(0), 0)]

Range(seq) == {seq[i] : i \in 1 .. Len(seq)}

-----------------------------------------------------------------------------
(* SceneManager: the operations as actions.                                *)

SetTex(T) ==
    /\ m_textureIDs' = T.m_textureIDs
    /\ m_loadedTextures' = T.m_loadedTextures
    /\ overrun' = T.overrun
    /\ glTextures' = T.glTextures
    /\ activeUnit' = T.activeUnit
    /\ unitTex' = T.unitTex
    /\ fault' = T.fault

texVars == <<m_textureIDs, m_loadedTextures, overrun, glTextures, activeUnit,
             unitTex>>

OtherCalls == failedCalls + dupCalls + maintCalls

\* the tags a caller passes: the next unused tag, or the tag registered
\* last once more
TagChoices ==
    {TagPool[Len(registered) + 1]}
    \cup (IF OtherCalls < MaxOtherCalls /\ registered # << >>
          THEN {registered[Len(registered)]} ELSE {})

CreateGLTexture(tag, colorChannels, oob) ==
    /\ fault = "none"
    /\ pc = 0
    /\ m_loadedTextures < TextureCapacity + MaxOverrun
    /\ ~CreateReturns(colorChannels) => OtherCalls < MaxOtherCalls
    /\ LET T == CreateGLTextureOn(TexNow, tag, colorChannels, oob)
           returned == T.fault = "none"
       IN  /\ SetTex(T)
           /\ registered' = IF returned /\ CreateReturns(colorChannels)
                            THEN Append(registered, tag) ELSE registered
           /\ failedCalls' = IF CreateReturns(colorChannels)
                             THEN failedCalls ELSE failedCalls + 1
           /\ dupCalls' = IF tag \in Range(registered)
                          THEN dupCalls + 1 ELSE dupCalls
           /\ lastOp' = Op("CreateGLTexture", tag, ExitTaken(colorChannels),
                           returned /\ CreateReturns(colorChannels),
                           StoreIndex(TexNow, colorChannels), {})
    /\ UNCHANGED <<m_pShaderManager, m_objectMaterials, uniforms, renderVars,
                   maintCalls, fmResult, viewVars>>

BindGLTextures ==
    /\ fault = "none"
    /\ pc = 0
    /\ OtherCalls < MaxOtherCalls
    /\ maintCalls' = maintCalls + 1
    /\ SetTex(BindGLTexturesOn(TexNow))
    /\ lastOp' = Op("BindGLTextures", NoTag, 0, FALSE, -1, {})
    /\ UNCHANGED <<m_pShaderManager, m_objectMaterials, uniforms, renderVars,
                   registered, failedCalls, dupCalls, fmResult, viewVars>>

DestroyGLTextures ==
    /\ fault = "none"
    /\ pc = 0
    /\ OtherCalls < MaxOtherCalls
    /\ maintCalls' = maintCalls + 1
    /\ SetTex(DestroyGLTexturesOn(TexNow))
    /\ lastOp' = Op("DestroyGLTextures", NoTag, 0, FALSE, -1, {})
    /\ UNCHANGED <<m_pShaderManager, m_objectMaterials, uniforms, renderVars,
                   registered, failedCalls, dupCalls, fmResult, viewVars>>

SetupMaterials ==
    /\ fault = "none"
    /\ pc = 0
    /\ m_objectMaterials' = MaterialPresets
    /\ lastOp' = Op("SetupMaterials", NoTag, 0, FALSE, -1, {})
    /\ UNCHANGED <<m_pShaderManager, texVars, uniforms, renderVars, fault,
                   registered, failedCalls, dupCalls, maintCalls, fmResult, viewVars>>

\* the tags callers look up: the five presets, and two that are no preset
MaterialTagInputs ==
    {"steel", "plastic", "darkplastic", "gold", "burntsand", "wood", "glass"}

SetShaderMaterial(materialTag, material) ==
    /\ fault = "none"
    /\ pc = 0
    /\ LET S == SetShaderMaterialOn(ShNow, materialTag, material)
       IN  /\ uniforms' = S.uniforms
           /\ fault' = S.fault
           /\ lastOp' = Op("SetShaderMaterial", materialTag, 0, FALSE, -1, S.wrote)
    /\ UNCHANGED <<m_pShaderManager, texVars, m_objectMaterials, renderVars,
                   registered, failedCalls, dupCalls, maintCalls, fmResult, viewVars>>

\* a caller of FindMaterial, with the content of its out-parameter
CallFindMaterial(tag, material) ==
    /\ fault = "none"
    /\ pc = 0
    /\ LET r == FindMaterial(m_objectMaterials, tag, material)
       IN  fmResult' = [called |-> TRUE, tag |-> tag, lib |-> m_objectMaterials,
                        ret |-> r.ret, in |-> material, out |-> r.material]
    /\ lastOp' = Op("FindMaterial", tag, 0, FALSE, -1, {})
    /\ UNCHANGED <<m_pShaderManager, texVars, m_objectMaterials, uniforms,
                   renderVars, fault, registered, failedCalls, dupCalls,
                   maintCalls, viewVars>>

-----------------------------------------------------------------------------
(* PrepareScene: SetupLights, LoadSceneTextures (five CreateGLTexture      *)
(* calls, then BindGLTextures), SetupMaterials, the mesh loads.            *)

sceneTextureCount == 5

RECURSIVE LoadLoop(_, _, _, _)
LoadLoop(T, decoded, oob, i) ==
    IF i <= sceneTextureCount /\ T.fault = "none"
    THEN LoadLoop(CreateGLTextureOn(T, TagPool[i], decoded[i], oob), decoded, oob, i + 1)
    ELSE T

LoadSceneTexturesOn(T, decoded, oob) ==
    LET loaded == LoadLoop(T, decoded, oob, 1)
    IN  IF loaded.fault = "none" THEN BindGLTexturesOn(loaded) ELSE loaded

Failures(decoded) ==
    Cardinality({i \in 1 .. sceneTextureCount : ~CreateReturns(decoded[i])})

PrepareScene(decoded, oob) ==
    /\ fault = "none"
    /\ pc = 0
    /\ ~prepared
    /\ Failures(decoded) <= MaxOtherCalls
    /\ LET S == SetupLightsOn(ShNow)
           T == LoadSceneTexturesOn(TexNow, decoded, oob)
       IN  IF S.fault # "none"
           THEN /\ fault' = S.fault
                /\ lastOp' = Op("PrepareScene", NoTag, 0, FALSE, -1, S.wrote)
                /\ UNCHANGED <<texVars, uniforms, m_objectMaterials, prepared,
                               registered, failedCalls>>
           ELSE /\ SetTex(T)
                /\ uniforms' = S.uniforms
                /\ m_objectMaterials' = IF T.fault = "none"
                                        THEN MaterialPresets ELSE m_objectMaterials
                /\ prepared' = (T.fault = "none")
                /\ registered' = registered \o
                       SelectSeq(SubSeq(TagPool, 1, sceneTextureCount),
                                 LAMBDA t : \E i \in 1 .. sceneTextureCount :
                                     TagPool[i] = t /\ CreateReturns(decoded[i]))
                /\ failedCalls' = failedCalls + Failures(decoded)
                /\ lastOp' = Op("PrepareScene", NoTag, 0, FALSE, -1, S.wrote)
    /\ UNCHANGED <<m_pShaderManager, pc, frame, drawLog, sinceDraw, dupCalls,
                   maintCalls, fmResult, viewVars>>

-----------------------------------------------------------------------------
(* RenderScene, one call at a time.                                        *)

Rendering(op) ==
    /\ fault = "none"
    /\ pc \in 1 .. Len(SceneProgram)
    /\ SceneProgram[pc].op = op

\* the effect of one uniform-setting call of the frame
RenderCall(S) ==
    /\ uniforms' = S.uniforms
    /\ fault' = S.fault
    /\ sinceDraw' = sinceDraw \cup S.wrote
    /\ lastOp' = Op(SceneProgram[pc].op, SceneProgram[pc].tag, 0, FALSE, -1, S.wrote)
    /\ pc' = pc + 1
    /\ UNCHANGED <<m_pShaderManager, texVars, m_objectMaterials, prepared,
                   frame, drawLog, registered, failedCalls, dupCalls,
                   maintCalls, fmResult, viewVars>>

BeginRenderScene ==
    /\ fault = "none"
    /\ prepared
    /\ pc = 0
    /\ frame < MaxFrames
    /\ pc' = 1
    /\ frame' = frame + 1
    /\ drawLog' = << >>
    /\ sinceDraw' = {}
    /\ lastOp' = Op("RenderScene", NoTag, 0, FALSE, -1, {})
    /\ UNCHANGED <<m_pShaderManager, texVars, m_objectMaterials, uniforms,
                   prepared, fault, registered, failedCalls, dupCalls,
                   maintCalls, fmResult, viewVars>>

RenderSetTransformations ==
    /\ Rendering("SetTransformations")
    /\ RenderCall(SetTransformationsOn(ShNow, SceneProgram[pc].u))

RenderSetShaderMaterial ==
    /\ Rendering("SetShaderMaterial")
    /\ \E material \in UninitMaterials :
          RenderCall(SetShaderMaterialOn(ShNow, SceneProgram[pc].tag, material))

RenderSetShaderTexture ==
    /\ Rendering("SetShaderTexture")
    /\ RenderCall(SetShaderTextureOn(ShNow, TexNow, SceneProgram[pc].tag))

RenderSetTextureUVScale ==
    /\ Rendering("SetTextureUVScale")
    /\ RenderCall(SetTextureUVScaleOn(ShNow, SceneProgram[pc].u, SceneProgram[pc].v))

\* m_basicMeshes->DrawXxxMesh(): the draw uses the uniforms as they stand
RenderDraw ==
    /\ Rendering("Draw")
    /\ drawLog' = Append(drawLog,
                         [mesh |-> SceneProgram[pc].tag, wrote |-> sinceDraw,
                          bUseTexture |-> uniforms["bUseTexture"]])
    /\ sinceDraw' = {}
    /\ lastOp' = Op("Draw", SceneProgram[pc].tag, 0, FALSE, -1, {})
    /\ pc' = pc + 1
    /\ UNCHANGED <<m_pShaderManager, texVars, m_objectMaterials, uniforms,
                   prepared, frame, fault, registered, failedCalls, dupCalls,
                   maintCalls, fmResult, viewVars>>

EndRenderScene ==
    /\ fault = "none"
    /\ pc = Len(SceneProgram) + 1
    /\ pc' = 0
    /\ lastOp' = Op("EndRenderScene", NoTag, 0, FALSE, -1, {})
    /\ UNCHANGED <<m_pShaderManager, texVars, m_objectMaterials, uniforms,
                   prepared, frame, drawLog, sinceDraw, fault, registered,
                   failedCalls, dupCalls, maintCalls, fmResult, viewVars>>

-----------------------------------------------------------------------------
(* ViewManager.  Angles are in tenths of a degree and the mouse            *)
(* sensitivity is 0.1 degree per pixel, so one pixel is one tenth.  The    *)
(* camera speed is in tenths.  Vectors the code computes with sin and cos  *)
(* are kept by the angles they are computed from.                          *)

\* g_pCamera->Front = glm::vec3(0.0f, -0.5f, -2.0f), in hundredths
FrontLiteral == <<0, 0, -50, -200>>

\* normalize((cos(yaw)cos(pitch), sin(pitch), sin(yaw)cos(pitch)))
FrontFromAngles(yaw, pitch) == <<1, yaw, pitch>>

\* Camera(): the yaw and pitch a Camera is constructed with
CameraDefaultYaw == -900
CameraDefaultPitch == 0

\* a position: the point last assigned, and whether W/S/A/D/Q/E have
\* displaced the camera from it since
At(x, y, z) == [at |-> <<x, y, z>>, moved |-> FALSE]

MoveKeys   == {"W", "S", "A", "D", "Q", "E"}
ToggleKeys == {"P", "O", "1", "2", "3"}
Keys       == {"ESC"} \cup MoveKeys \cup ToggleKeys

\* frames in which at most one key is down
OneKeySets == {{}} \cup {{k} : k \in Keys}

\* the sets of keys glfwGetKey reports as pressed in one frame: up to two
\* toggle keys, with or without one of the other keys
KeySets ==
    {others \cup {t1, t2} :
        others \in {{}} \cup {{k} : k \in Keys \ ToggleKeys},
        t1 \in ToggleKeys, t2 \in ToggleKeys}
    \cup OneKeySets

\* cursor positions glfw reports (pixels)
MouseXs == {500, 1400}
MouseYs == {400, 1400}

\* scroll-wheel Y offsets, in tenths
ScrollOffsets == {-30, -10, -5, 5, 10, 30}

\* the view state ProcessKeyboardEvents works on
ViewNow ==
    [camera |-> g_pCamera, ortho |-> bOrthographicProjection,
     pPressed |-> pPressed, oPressed |-> oPressed,
     viewKeyPressed |-> viewKeyPressed, close |-> windowShouldClose,
     fired |-> << >>]

\* the two clamps of Mouse_Position_Callback
ClampPitchMutant(pitch) == IF pitch > 890 THEN 890 ELSE pitch
ClampPitch(pitch) ==
    LET upper == IF pitch > 890 THEN 890 ELSE pitch
    IN  IF upper < -890 THEN -890 ELSE upper

\* the two clamps of Scroll_Callback
ClampSpeedMutant(speed) == IF speed < 10 THEN 10 ELSE speed
ClampSpeed(speed) ==
    LET lower == IF speed < 10 THEN 10 ELSE speed
    IN  IF lower > 200 THEN 200 ELSE lower

\* the static latch of a toggle key
Latch(V, key) ==
    CASE key = "P" -> V.pPressed
      [] key = "O" -> V.oPressed
      [] key = "1" -> V.viewKeyPressed[0]
      [] key = "2" -> V.viewKeyPressed[1]
      [] key = "3" -> V.viewKeyPressed[2]

SetLatch(V, key, down) ==
    CASE key = "P" -> [V EXCEPT !.pPressed = down]
      [] key = "O" -> [V EXCEPT !.oPressed = down]
      [] key = "1" -> [V EXCEPT !.viewKeyPressed[0] = down]
      [] key = "2" -> [V EXCEPT !.viewKeyPressed[1] = down]
      [] key = "3" -> [V EXCEPT !.viewKeyPressed[2] = down]

\* what each toggle assigns: projection flag, position, yaw, pitch
PresetOf(key) ==
    CASE key = "P" -> [ortho |-> FALSE, pos |-> At(0, 5, 12),  yaw |-> -900,  pitch |-> -200]
      [] key = "O" -> [ortho |-> TRUE,  pos |-> At(0, 5, 12),  yaw |-> -900,  pitch |-> -200]
      [] key = "1" -> [ortho |-> TRUE,  pos |-> At(0, 5, 12),  yaw |-> -900,  pitch |-> -200]
      [] key = "2" -> [ortho |-> TRUE,  pos |-> At(0, 15, 0),  yaw |-> -900,  pitch |-> -899]
      [] key = "3" -> [ortho |-> TRUE,  pos |-> At(15, 5, 0),  yaw |-> -1800, pitch |-> -200]

\* glfwGetKey(key) == GLFW_PRESS && !latch
FiresMutant(down, latch) == down
Fires(down, latch) == down /\ ~latch

\* if (glfwGetKey(key) == GLFW_RELEASE) latch = false
Release(V, key, down) == IF ~down THEN SetLatch(V, key, FALSE) ELSE V

\* the body of a toggle's if: flag, latch, pose, recomputed front
FirePresetMutant(V, key) ==
    LET p == PresetOf(key)
        latched == SetLatch(V, key, TRUE)
    IN  [latched EXCEPT
            !.ortho = p.ortho,
            !.camera.Position = p.pos,
            !.camera.Yaw = p.yaw,
            !.camera.Pitch = p.pitch,
            !.fired = Append(@, key)]
FirePreset(V, key) ==
    LET p == PresetOf(key)
        latched == SetLatch(V, key, TRUE)
    IN  [latched EXCEPT
            !.ortho = p.ortho,
            !.camera.Position = p.pos,
            !.camera.Yaw = p.yaw,
            !.camera.Pitch = p.pitch,
            !.camera.Front = FrontFromAngles(p.yaw, p.pitch),
            !.fired = Append(@, key)]

\* one toggle key: the edge-triggered block, then the release block
Toggle(V, keys, key) ==
    LET down == key \in keys
        v1 == IF Fires(down, Latch(V, key)) THEN FirePreset(V, key) ELSE V
    IN  Release(v1, key, down)

\* one movement key: Position += / -= cameraSpeed * direction
Move(V, keys, key) ==
    IF key \in keys THEN [V EXCEPT !.camera.Position.moved = TRUE] ELSE V

ProcessKeyboardEventsMutant(V, keys) ==
    LET esc == IF "ESC" \in keys THEN [V EXCEPT !.close = TRUE] ELSE V
        p == Toggle(esc, keys, "P")
        o == Toggle(p, keys, "O")
        k1 == Toggle(o, keys, "1")
        k2 == Toggle(k1, keys, "2")
        k3 == Toggle(k2, keys, "3")
        w == Move(k3, keys, "W")
        s == Move(w, keys, "S")
        a == Move(s, keys, "A")
        d == Move(a, keys, "D")
        q == Move(d, keys, "Q")
    IN  Move(q, keys, "E")
ProcessKeyboardEvents(V, keys) ==
    LET esc == IF "ESC" \in keys THEN [V EXCEPT !.close = TRUE] ELSE V
        w == Move(esc, keys, "W")
        s == Move(w, keys, "S")
        a == Move(s, keys, "A")
        d == Move(a, keys, "D")
        q == Move(d, keys, "Q")
        e == Move(q, keys, "E")
        p == Toggle(e, keys, "P")
        o == Toggle(p, keys, "O")
        k1 == Toggle(o, keys, "1")
        k2 == Toggle(k1, keys, "2")
    IN  Toggle(k2, keys, "3")

\* Camera::GetViewMatrix: lookAt(Position, Position + Front, Up)
ViewMatrix(camera) ==
    camera.Position.at \o <<IF camera.Position.moved THEN 1 ELSE 0>>
    \o camera.Front

\* glm::perspective(radians(Zoom), aspect, 0.1, 100) or glm::ortho(+-10*aspect, +-10, 0.1, 100)
ProjectionMatrixMutant(ortho, camera) ==
    IF ortho THEN <<0, camera.Zoom>> ELSE <<1, 10>>
ProjectionMatrix(ortho, camera) ==
    IF ~ortho THEN <<0, camera.Zoom>> ELSE <<1, 10>>

NoViewOp ==
    [op |-> "none", keys |-> {}, prevDown |-> {}, fired |-> << >>, scroll |-> 0]

CreateDisplayWindow(created) ==
    /\ fault = "none"
    /\ m_pWindow = "NULL"
    /\ viewLog.op = "none"
    /\ m_pWindow' = IF created THEN "window" ELSE "NULL"
    /\ viewLog' = [viewLog EXCEPT !.op = "CreateDisplayWindow"]
    /\ UNCHANGED <<sceneVars, glVars, renderVars, histVars, fault, g_pCamera,
                   gLastX, gLastY, gFirstMouse, gCameraSpeed,
                   bOrthographicProjection, pPressed, oPressed, viewKeyPressed,
                   windowShouldClose>>

Mouse_Position_Callback(xMousePos, yMousePos) ==
    /\ fault = "none"
    /\ m_pWindow # "NULL"
    /\ LET lastX == IF gFirstMouse THEN xMousePos ELSE gLastX
           lastY == IF gFirstMouse THEN yMousePos ELSE gLastY
           xoffset == xMousePos - lastX
           yoffset == lastY - yMousePos
           yaw == g_pCamera.Yaw + xoffset
           pitch == ClampPitch(g_pCamera.Pitch + yoffset)
       IN  g_pCamera' = [g_pCamera EXCEPT !.Yaw = yaw, !.Pitch = pitch,
                                          !.Front = FrontFromAngles(yaw, pitch)]
    /\ gFirstMouse' = FALSE
    /\ gLastX' = xMousePos
    /\ gLastY' = yMousePos
    /\ viewLog' = [viewLog EXCEPT !.op = "Mouse_Position_Callback"]
    /\ UNCHANGED <<sceneVars, glVars, renderVars, histVars, fault, m_pWindow,
                   gCameraSpeed, bOrthographicProjection, pPressed, oPressed,
                   viewKeyPressed, windowShouldClose>>

Scroll_Callback(yoffset) ==
    /\ fault = "none"
    /\ m_pWindow # "NULL"
    /\ gCameraSpeed' = ClampSpeed(gCameraSpeed + yoffset)
    /\ viewLog' = [viewLog EXCEPT !.op = "Scroll_Callback", !.scroll = yoffset]
    /\ UNCHANGED <<sceneVars, glVars, renderVars, histVars, fault, m_pWindow,
                   g_pCamera, gLastX, gLastY, gFirstMouse,
                   bOrthographicProjection, pPressed, oPressed, viewKeyPressed,
                   windowShouldClose>>

\* PrepareSceneView: frame timing, ProcessKeyboardEvents, then view,
\* projection and viewPosition pushed when the shader manager is not null
PrepareSceneView(keys) ==
    /\ fault = "none"
    /\ m_pWindow # "NULL"
    /\ \E V \in {ProcessKeyboardEvents(ViewNow, keys)} :
       LET s1 == SetUniform(ShNow, "view", ViewMatrix(V.camera))
           s2 == SetUniform(s1, "projection", ProjectionMatrix(V.ortho, V.camera))
           s3 == SetUniform(s2, "viewPosition",
                            V.camera.Position.at
                            \o <<IF V.camera.Position.moved THEN 1 ELSE 0>>)
       IN  /\ g_pCamera' = V.camera
           /\ bOrthographicProjection' = V.ortho
           /\ pPressed' = V.pPressed
           /\ oPressed' = V.oPressed
           /\ viewKeyPressed' = V.viewKeyPressed
           /\ windowShouldClose' = V.close
           /\ uniforms' = IF m_pShaderManager # "NULL" THEN s3.uniforms ELSE uniforms
           /\ viewLog' = [op |-> "PrepareSceneView", keys |-> keys,
                          prevDown |-> viewLog.keys \cap ToggleKeys,
                          fired |-> V.fired, scroll |-> viewLog.scroll]
    /\ UNCHANGED <<sceneVars, glTextures, activeUnit, unitTex, renderVars,
                   histVars, fault, m_pWindow, gLastX, gLastY, gFirstMouse,
                   gCameraSpeed>>

-----------------------------------------------------------------------------
(* The state after SceneManager(pShaderManager) and                        *)
(* ViewManager(pShaderManager) are constructed.                            *)

\* the registry a SceneManager starts with
InitialLoadedTextures == 0

Init ==
    /\ m_pShaderManager \in {"NULL", "valid"}
    /\ m_textureIDs = [i \in 0 .. (TextureCapacity - 1) |-> EmptySlot]
    /\ m_loadedTextures = InitialLoadedTextures
    /\ overrun = << >>
    /\ m_objectMaterials = << >>
    /\ glTextures = {}
    /\ activeUnit = 0
    /\ unitTex = [u \in TextureUnits |-> 0]
    /\ uniforms = [n \in UniformNames |-> << >>]
    /\ prepared = FALSE
    /\ pc = 0
    /\ frame = 0
    /\ drawLog = << >>
    /\ sinceDraw = {}
    /\ fault = "none"
    /\ lastOp = NoOp
    /\ registered = << >>
    /\ failedCalls = 0
    /\ dupCalls = 0
    /\ maintCalls = 0
    /\ fmResult = NoFindMaterial
    /\ m_pWindow = "NULL"
    /\ g_pCamera = [Position |-> At(0, 5, 12), Front |-> FrontLiteral,
                    Up |-> <<0, 1, 0>>, Yaw |-> CameraDefaultYaw,
                    Pitch |-> CameraDefaultPitch, Zoom |-> 80]
    /\ gLastX = 500
    /\ gLastY = 400
    /\ gFirstMouse = TRUE
    /\ gCameraSpeed = 50
    /\ bOrthographicProjection = FALSE
    /\ pPressed = FALSE
    /\ oPressed = FALSE
    /\ viewKeyPressed = [i \in 0 .. 2 |-> FALSE]
    /\ windowShouldClose = FALSE
    /\ viewLog = NoViewOp

\* the texture operations never use the shader manager
InitTex == Init /\ m_pShaderManager = "valid"

\* the texture registry driven through its public operations
NextTex ==
    \/ \E tag \in TagChoices, colorChannels \in DecodeResults,
          oob \in OverrunOutcomes : CreateGLTexture(tag, colorChannels, oob)
    \/ BindGLTextures
    \/ DestroyGLTextures

\* the material library and the material uniforms
NextMat ==
    \/ SetupMaterials
    \/ \E tag \in MaterialTagInputs, material \in UninitMaterials :
          SetShaderMaterial(tag, material)
    \/ \E tag \in MaterialTagInputs,
          material \in UninitMaterials \cup Range(MaterialPresets) :
          CallFindMaterial(tag, material)

\* scene preparation, then frames
NextScene ==
    \/ \E decoded \in [1 .. sceneTextureCount -> DecodeResults],
          oob \in OverrunOutcomes : PrepareScene(decoded, oob)
    \/ BeginRenderScene
    \/ RenderSetTransformations
    \/ RenderSetShaderMaterial
    \/ RenderSetShaderTexture
    \/ RenderSetTextureUVScale
    \/ RenderDraw
    \/ EndRenderScene

\* the window and the per-frame keyboard poll, several keys at a time
NextView ==
    \/ \E created \in BOOLEAN : CreateDisplayWindow(created)
    \/ \E keys \in KeySets : PrepareSceneView(keys)

\* the window, the cursor and the per-frame keyboard poll, a key at a time
NextLook ==
    \/ \E created \in BOOLEAN : CreateDisplayWindow(created)
    \/ \E x \in MouseXs, y \in MouseYs : Mouse_Position_Callback(x, y)
    \/ \E keys \in OneKeySets : PrepareSceneView(keys)

\* the window, the cursor and the scroll wheel
NextScroll ==
    \/ \E created \in BOOLEAN : CreateDisplayWindow(created)
    \/ \E x \in MouseXs, y \in MouseYs : Mouse_Position_Callback(x, y)
    \/ \E yoffset \in ScrollOffsets : Scroll_Callback(yoffset)

\* every input the window delivers: horizontal cursor moves, the scroll
\* wheel turned down, and the per-frame keyboard poll, a key at a time
NextInput ==
    \/ \E created \in BOOLEAN : CreateDisplayWindow(created)
    \/ \E x \in MouseXs : Mouse_Position_Callback(x, gLastY)
    \/ \E yoffset \in {-30} : Scroll_Callback(yoffset)
    \/ \E keys \in OneKeySets : PrepareSceneView(keys)

Next ==
    \/ NextTex \/ NextMat \/ NextScene
    \/ NextView \/ NextLook \/ NextScroll \/ NextInput

Spec       == Init /\ [][Next]_vars
SpecTex    == InitTex /\ [][NextTex]_vars
SpecMat    == Init /\ [][NextMat]_vars
SpecScene  == Init /\ [][NextScene]_vars
SpecView   == Init /\ [][NextView]_vars
SpecLook   == Init /\ [][NextLook]_vars
SpecScroll == Init /\ [][NextScroll]_vars
SpecInput  == Init /\ [][NextInput]_vars

-----------------------------------------------------------------------------
(* Properties of the texture registry (SpecTex).                           *)

\* C1 (slot stability): while no registered tag has been passed again, the
\* k-th tag registered (k from 0) is found at slot k, in every state after
\* its registration, whatever CreateGLTexture, BindGLTextures or
\* DestroyGLTextures calls follow.
C1_SlotStability ==
    dupCalls = 0 =>
        \A k \in 1 .. Len(registered) : FindTextureSlot(registered[k]) = k - 1

\* C8 (failed CreateGLTexture): a call whose image does not decode, or
\* decodes to a channel count other than 3 and 4, returns false and leaves
\* the count, every array entry and the tags registered as they were.
C8_FailedCreateKeepsRegistry ==
    [][(lastOp'.op = "CreateGLTexture" /\ lastOp'.arg # 2) =>
          /\ ~lastOp'.ret
          /\ lastOp'.index = -1
          /\ m_loadedTextures' = m_loadedTextures
          /\ m_textureIDs' = m_textureIDs
          /\ overrun' = overrun
          /\ registered' = registered]_vars

\* a call that failed on the channel count, after earlier registrations
C8_Witness ==
    /\ lastOp.op = "CreateGLTexture"
    /\ lastOp.arg = 1
    /\ ~lastOp.ret
    /\ m_loadedTextures > 1

\* C9 (bounded registry): the number of registered entries never exceeds
\* the 16 slots of m_textureIDs and no CreateGLTexture call stores at an
\* index of 16 or more.
C9_RegistryBounded ==
    /\ m_loadedTextures <= TextureCapacity
    /\ lastOp.op = "CreateGLTexture" => lastOp.index < TextureCapacity

\* C10 (DestroyGLTextures releases everything): in the state
\* DestroyGLTextures leaves, no texture name generated by an earlier
\* CreateGLTexture call is still allocated.
C10_DestroyReleasesAll ==
    lastOp.op = "DestroyGLTextures" => glTextures = {}

-----------------------------------------------------------------------------
(* Properties of the material library (SpecMat).                           *)

\* C6 (missing material tag): SetShaderMaterial with a tag that is not in a
\* non-empty library writes none of the five material uniforms.
C6_MissingTagWritesNothing ==
    (/\ lastOp.op = "SetShaderMaterial"
     /\ Len(m_objectMaterials) > 0
     /\ \A i \in 1 .. Len(m_objectMaterials) :
            m_objectMaterials[i].tag # lastOp.tag)
    => lastOp.wrote \cap MaterialUniforms = {}

\* C7 (FindMaterial): the call returns false exactly on an empty library;
\* on a hit the five fields of the out-parameter are those of the first
\* preset with the tag (gold: shininess 64, specular (1,1,1)) and its tag
\* field is not assigned; on a miss the out-parameter is as it was passed;
\* the library is as it was before the call.
C7_FindMaterialContract ==
    (fmResult.called /\ lastOp.op = "FindMaterial") =>
        LET lib == fmResult.lib
            hits == {i \in 1 .. Len(lib) : lib[i].tag = fmResult.tag}
        IN  /\ fmResult.ret = (Len(lib) # 0)
            /\ m_objectMaterials = lib
            /\ hits = {} => fmResult.out = fmResult.in
            /\ hits # {} =>
                 LET first == CHOOSE i \in hits : \A j \in hits : i <= j
                 IN  /\ fmResult.out.ambientColor = lib[first].ambientColor
                     /\ fmResult.out.ambientStrength = lib[first].ambientStrength
                     /\ fmResult.out.diffuseColor = lib[first].diffuseColor
                     /\ fmResult.out.specularColor = lib[first].specularColor
                     /\ fmResult.out.shininess = lib[first].shininess
                     /\ fmResult.out.tag = fmResult.in.tag
            /\ (lib = MaterialPresets /\ fmResult.tag = "gold") =>
                 /\ fmResult.out.shininess = 6400
                 /\ fmResult.out.specularColor = <<100, 100, 100>>

\* "gold" looked up after SetupMaterials into an unassigned OBJECT_MATERIAL
C7_Witness ==
    /\ fmResult.called
    /\ lastOp.op = "FindMaterial"
    /\ fmResult.lib = MaterialPresets
    /\ fmResult.tag = "gold"
    /\ fmResult.in \in UninitMaterials
    /\ fmResult.in.shininess # 6400
    /\ fmResult.ret

-----------------------------------------------------------------------------
(* Properties of RenderScene (SpecScene).                                  *)

\* C5 (shading-parameter protocol): every draw of every frame is preceded,
\* since the draw before it or the start of the frame, by a write of
\* bUseTexture, so no draw uses a texturing mode left over from an earlier
\* draw or frame.
C5_ShadingProtocol ==
    \A i \in 1 .. Len(drawLog) : "bUseTexture" \in drawLog[i].wrote

-----------------------------------------------------------------------------
(* Properties of the camera and the input handlers.                        *)

\* C2 (pitch range): the camera pitch is within [-89, 89] degrees in every
\* state reached by mouse moves and key polls.
C2_PitchRange == g_pCamera.Pitch \in -890 .. 890

\* C2, as the code has it: the pitch is within [-89, 89] after every mouse
\* move and never above 89; below -89 it is exactly the -89.9 that key 2
\* assigns, and it stays there until a mouse move or another preset.
C2_PitchRangeAmended ==
    /\ g_pCamera.Pitch \in -899 .. 890
    /\ viewLog.op = "Mouse_Position_Callback" => g_pCamera.Pitch \in -890 .. 890
    /\ g_pCamera.Pitch < -890 => g_pCamera.Pitch = PresetOf("2").pitch
    /\ (viewLog.op = "PrepareSceneView" /\ "2" \in Range(viewLog.fired))
          => g_pCamera.Pitch = -899

\* key 2 fired its preset after the mouse had moved the camera
C2_Witness ==
    /\ viewLog.op = "PrepareSceneView"
    /\ "2" \in Range(viewLog.fired)
    /\ ~gFirstMouse
    /\ g_pCamera.Pitch = -899

\* C3 (edge-triggered toggles): in every polled frame the toggles that fire
\* are exactly the keys among P, O, 1, 2, 3 that are down in this frame and
\* were not down in the frame polled before, each firing once; so a held
\* key fires in the first frame only and a release followed by a press
\* fires once more.
C3_EdgeTriggered ==
    viewLog.op = "PrepareSceneView" =>
        /\ Range(viewLog.fired) =
              {k \in ToggleKeys : k \in viewLog.keys /\ k \notin viewLog.prevDown}
        /\ Len(viewLog.fired) = Cardinality(Range(viewLog.fired))
        /\ \A k \in ToggleKeys : Latch(ViewNow, k) = (k \in viewLog.keys)

\* P held over two consecutive frames, with O newly pressed in the second:
\* only O fires
C3_Witness ==
    /\ viewLog.op = "PrepareSceneView"
    /\ "P" \in viewLog.keys
    /\ "P" \in viewLog.prevDown
    /\ viewLog.fired = <<"O">>

\* C4 (speed clamp): the camera speed starts at 5 and is within [1, 20] in
\* every state; each scroll sets it to the old speed plus the Y offset,
\* clamped to [1, 20], so it saturates at exactly 20 and at exactly 1.
C4_SpeedClamp ==
    /\ gCameraSpeed = 50
    /\ [](gCameraSpeed \in 10 .. 200)
    /\ [][viewLog'.op = "Scroll_Callback" =>
            LET sum == gCameraSpeed + viewLog'.scroll
            IN  /\ sum > 200 => gCameraSpeed' = 200
                /\ sum < 10 => gCameraSpeed' = 10
                /\ sum \in 10 .. 200 => gCameraSpeed' = sum]_vars

\* a positive scroll at the upper end: the speed stays at exactly 20
C4_Witness ==
    /\ viewLog.op = "Scroll_Callback"
    /\ viewLog.scroll = 30
    /\ gCameraSpeed = 200

\* C11 (front derived from yaw and pitch): in every state, from
\* construction on, the camera front is the unit vector computed from the
\* camera's current yaw and pitch.
C11_FrontDerived ==
    g_pCamera.Front = FrontFromAngles(g_pCamera.Yaw, g_pCamera.Pitch)

\* C11, as the code has it: the front is the unit vector of the current yaw
\* and pitch after every mouse move and after every pose reset, and from
\* the first of these on in every state; before them it is the literal
\* (0, -0.5, -2) the constructor assigns, which is not a unit vector.
C11_FrontDerivedAmended ==
    /\ [](\/ g_pCamera.Front = FrontLiteral
          \/ g_pCamera.Front = FrontFromAngles(g_pCamera.Yaw, g_pCamera.Pitch))
    /\ [](viewLog.op = "Mouse_Position_Callback" =>
            g_pCamera.Front = FrontFromAngles(g_pCamera.Yaw, g_pCamera.Pitch))
    /\ []((viewLog.op = "PrepareSceneView" /\ viewLog.fired # << >>) =>
            g_pCamera.Front = FrontFromAngles(g_pCamera.Yaw, g_pCamera.Pitch))
    /\ [][g_pCamera.Front # FrontLiteral => g_pCamera'.Front # FrontLiteral]_vars
    /\ [][(g_pCamera.Front = FrontLiteral /\ g_pCamera'.Front # FrontLiteral) =>
            \/ viewLog'.op = "Mouse_Position_Callback"
            \/ viewLog'.op = "PrepareSceneView" /\ viewLog'.fired # << >>]_vars

\* key 3 reset the pose after the mouse had turned the camera
C11_Witness ==
    /\ viewLog.op = "PrepareSceneView"
    /\ viewLog.fired = <<"3">>
    /\ ~gFirstMouse
    /\ g_pCamera.Front = FrontFromAngles(-1800, -200)

\* C12 (projection mode and preset pose): the mode starts as perspective;
\* every frame pushes the projection of the current mode; a frame in which
\* exactly one toggle fires ends with perspective for P and orthographic
\* for O, 1, 2, 3, pushed in that frame, and with the camera at the key's
\* preset position, yaw and pitch; the mode changes only in a frame where a
\* toggle fires, never by a mouse move, a scroll or a movement key.
C12_ModeAndPose ==
    /\ ~bOrthographicProjection
    /\ []((viewLog.op = "PrepareSceneView" /\ m_pShaderManager = "valid") =>
            uniforms["projection"] =
                IF bOrthographicProjection THEN <<1, 10>>
                ELSE <<0, g_pCamera.Zoom>>)
    /\ []((viewLog.op = "PrepareSceneView" /\ Len(viewLog.fired) = 1) =>
            LET k == viewLog.fired[1]
                pose == CASE k \in {"P", "O", "1"} -> <<0, 5, 12, -900, -200>>
                          [] k = "2" -> <<0, 15, 0, -900, -899>>
                          [] k = "3" -> <<15, 5, 0, -1800, -200>>
            IN  /\ bOrthographicProjection = (k # "P")
                /\ g_pCamera.Position.at \o <<g_pCamera.Yaw, g_pCamera.Pitch>>
                     = pose
                /\ ~g_pCamera.Position.moved)
    /\ [][bOrthographicProjection' # bOrthographicProjection =>
            (viewLog'.op = "PrepareSceneView" /\ viewLog'.fired # << >>)]_vars

\* key 2 alone fired after P had put the view back to perspective: the
\* frame pushes the orthographic projection with the top-down pose
C12_Witness ==
    /\ viewLog.op = "PrepareSceneView"
    /\ viewLog.fired = <<"2">>
    /\ pPressed = FALSE
    /\ m_pShaderManager = "valid"
    /\ uniforms["projection"] = <<1, 10>>
    /\ g_pCamera.Position = At(0, 15, 0)
    /\ gCameraSpeed < 50
    /\ ~gFirstMouse

-----------------------------------------------------------------------------
(* Properties of the frame traversal (SpecScene).                          *)

\* C13 (draw count and order): the draws of a frame are, at every point of
\* the frame, a prefix of the fixed list of 25 meshes, and a completed
\* frame has issued all 25, whatever textures were registered and whichever
\* frame it is.
C13_DrawOrder ==
    LET expected ==
            <<"plane", "box", "cylinder", "cylinder", "taperedcylinder",
              "sphere", "taperedcylinder", "sphere", "cylinder", "cone",
              "sphere", "box", "box", "cylinder", "taperedcylinder",
              "cylinder", "cylinder", "cylinder", "cylinder", "cylinder",
              "cylinder", "cylinder", "box", "box", "box">>
    IN  /\ Len(drawLog) <= 25
        /\ \A i \in 1 .. Len(drawLog) : drawLog[i].mesh = expected[i]
        /\ lastOp.op = "EndRenderScene" => Len(drawLog) = 25
        /\ pc > 0 => Len(drawLog) = Cardinality({j \in 1 .. (pc - 1) :
                                                   SceneProgram[j].op = "Draw"})

\* the second frame completed with the "wood" texture missing
C13_Witness ==
    /\ lastOp.op = "EndRenderScene"
    /\ frame = 2
    /\ Len(drawLog) = 25
    /\ FindTextureSlot("wood") = -1

-----------------------------------------------------------------------------
(* Properties of the uniform-pushing operations.                           *)

\* C14 (null shader manager): with a null shader manager every operation
\* that pushes uniforms returns without pushing any uniform and without a
\* null dereference.
C14_NullShaderSilent ==
    m_pShaderManager = "NULL" =>
        /\ fault = "none"
        /\ \A n \in UniformNames : uniforms[n] = << >>

\* C15 (missing texture tag): for a tag that no successful CreateGLTexture
\* call registered (one whose load failed included) FindTextureSlot and
\* FindTextureID return -1; SetShaderTexture with such a tag leaves
\* bUseTexture = 1 and objectTexture = -1 and no fault; no SetShaderTexture
\* call changes the registry; and the frame goes on to issue all 25 draws.
C15_MissingTextureTag ==
    /\ [](\A i \in 1 .. Len(TagPool) :
            TagPool[i] \notin Range(registered) =>
                /\ FindTextureSlot(TagPool[i]) = -1
                /\ FindTextureID(TagPool[i]) = -1)
    /\ []((lastOp.op = "SetShaderTexture" /\ lastOp.tag \notin Range(registered)) =>
            /\ fault = "none"
            /\ uniforms["bUseTexture"] = <<1>>
            /\ uniforms["objectTexture"] = <<-1>>)
    /\ [][lastOp'.op = "SetShaderTexture" =>
            /\ m_textureIDs' = m_textureIDs
            /\ m_loadedTextures' = m_loadedTextures
            /\ overrun' = overrun
            /\ pc' = pc + 1]_vars
    /\ []((lastOp.op = "EndRenderScene" /\ Len(registered) < sceneTextureCount) =>
            Len(drawLog) = 25)

\* the desk's SetShaderTexture("wood") in a frame whose "wood" load failed
C15_Witness ==
    /\ lastOp.op = "SetShaderTexture"
    /\ lastOp.tag = "wood"
    /\ "wood" \notin Range(registered)
    /\ "gold" \in Range(registered)
    /\ uniforms["objectTexture"] = <<-1>>

\* C16 (texture unit bindings): from the end of PrepareScene on, at every
\* point of every frame, each registered tag's slot is its registration
\* order and the texture unit of that number has the tag's handle bound,
\* an allocated handle no other tag shares; RenderScene neither registers
\* a texture nor changes a binding.
C16_UnitBindings ==
    /\ [](prepared =>
            \A k \in 1 .. Len(registered) :
                /\ FindTextureSlot(registered[k]) = k - 1
                /\ FindTextureID(registered[k]) \in glTextures
                /\ unitTex[k - 1] = FindTextureID(registered[k])
                /\ \A j \in 1 .. Len(registered) :
                      FindTextureID(registered[j]) = FindTextureID(registered[k])
                          => j = k)
    /\ [][prepared => (/\ unitTex' = unitTex
                       /\ m_textureIDs' = m_textureIDs
                       /\ m_loadedTextures' = m_loadedTextures
                       /\ glTextures' = glTextures)]_vars

\* a draw of the second frame, after a PrepareScene in which "stainless"
\* had an unsupported channel count: "gold" is at unit 0
C16_Witness ==
    /\ lastOp.op = "Draw"
    /\ frame = 2
    /\ registered = <<"gold", "wood", "plastic", "darkplastic">>
    /\ Cardinality(glTextures) = 5
    /\ unitTex[0] = FindTextureID("gold")
    /\ unitTex[3] = FindTextureID("darkplastic")

\* C17 (one model matrix per draw): every draw of every frame is preceded,
\* since the draw before it or the start of the frame, by a
\* SetTransformations call, and by one only, since each such call directly
\* follows a draw or the start of the frame; so the model uniform a draw
\* uses is the one written for it, for each mug-handle segment too.
C17_OneTransformPerDraw ==
    /\ [](\A i \in 1 .. Len(drawLog) : "model" \in drawLog[i].wrote)
    /\ [](lastOp.op = "Draw" => uniforms["model"] = <<Len(drawLog)>>)
    /\ [][lastOp'.op = "SetTransformations" =>
            lastOp.op \in {"RenderScene", "Draw"}]_vars
    /\ [][lastOp'.op = "Draw" => lastOp.op # "Draw"]_vars

\* the third mug-handle segment drawn in the second frame
C17_Witness ==
    /\ lastOp.op = "Draw"
    /\ frame = 2
    /\ Len(drawLog) = 18
    /\ drawLog[18].mesh = "cylinder"
    /\ uniforms["model"] = <<18>>

-----------------------------------------------------------------------------
(* Properties of the keyboard poll (SpecView).                             *)

\* C18 (key order within a frame): the toggles of a frame fire in the order
\* P, O, 1, 2, 3, after the movement keys; a frame in which at least one
\* toggle fires ends with the position, yaw, pitch and projection mode of
\* the last toggle that fired, whatever movement key is held and whatever
\* other toggle fired.
C18_KeyOrder ==
    (viewLog.op = "PrepareSceneView" /\ viewLog.fired # << >>) =>
        LET rank(k) == CASE k = "P" -> 1 [] k = "O" -> 2 [] k = "1" -> 3
                         [] k = "2" -> 4 [] k = "3" -> 5
            last == viewLog.fired[Len(viewLog.fired)]
            pose == CASE last \in {"P", "O", "1"} -> <<0, 5, 12, -900, -200>>
                      [] last = "2" -> <<0, 15, 0, -900, -899>>
                      [] last = "3" -> <<15, 5, 0, -1800, -200>>
        IN  /\ \A i \in 1 .. (Len(viewLog.fired) - 1) :
                  rank(viewLog.fired[i]) < rank(viewLog.fired[i + 1])
            /\ g_pCamera.Position.at \o <<g_pCamera.Yaw, g_pCamera.Pitch>> = pose
            /\ ~g_pCamera.Position.moved
            /\ bOrthographicProjection = (last # "P")

\* P and 3 fire in one frame while W is held: the frame ends in key 3's pose
C18_Witness ==
    /\ viewLog.op = "PrepareSceneView"
    /\ viewLog.keys = {"W", "P", "3"}
    /\ viewLog.fired = <<"P", "3">>
    /\ g_pCamera.Position = At(15, 5, 0)
    /\ bOrthographicProjection

=============================================================================
